---------------------------- MODULE Spec2Model ----------------------------
(***************************************************************************)
(* Verification model of the CS231n assignment scripts (assignment2 and    *)
(* assignment3).  Every script is a linear program; each one is modelled   *)
(* as a small state machine whose program counter is `pc`.  Tensors are    *)
(* modelled by integers (or short sequences of integers); the autograd     *)
(* engine is modelled by what it does to the `.grad` fields.               *)
(*                                                                         *)
(* One specification per script:                                           *)
(*   SpecTrain2    train_part2        (assignment2/PyTorch.py)             *)
(*   SpecTrain34   train_part34       (assignment2/PyTorch.py)             *)
(*   SpecTrain34Run  train_part34 with fair scheduling, and the final run  *)
(*   SpecImageOpt  style_transfer, create_class_visualization (assignment3)*)
(*   SpecFooling   make_fooling_image and its assertion (assignment3)      *)
(*   SpecLoaders   loader_train, loader_val, loader_test (PyTorch.py)      *)
(*   SpecConvnet   three_layer_convnet (PyTorch.py)                        *)
(*   SpecBn        test-time forward check (BatchNormalization.py)         *)
(*   SpecBnBackward  batchnorm_backward against batchnorm_backward_alt     *)
(*   SpecLn        layer normalisation checks (BatchNormalization.py)      *)
(*   SpecDropout   dropout forward test (Dropout.py)                       *)
(***************************************************************************)
EXTENDS Integers, Sequences, FiniteSets, TLC

VARIABLES
    pc,            \* position of the running script
    params,        \* the model's parameters (weight, bias): <<w, b>>
    grad,          \* the .grad field of every parameter
    graph,         \* the loss tensor of the last forward pass with its autograd
                   \* graph: <<>> or <<[w, b, x, y, freed]>>
    x, y,          \* the current minibatch (input, label)
    e, t,          \* epoch and iteration counters of the training loops
    i,             \* index of `for w in params` in train_part2
    epochs,        \* the `epochs` argument of train_part34
    learning_rate, \* the learning rate (argument / optimizer hyperparameter)
    training,      \* nn.Module.training flag (model.train() / model.eval())
    \* ---- assignment3: image optimisation (style transfer, class visualisation)
    script,        \* which function runs: "style_transfer" / "create_class_visualization"
    tensor,        \* tensor storage: address -> <<pixel 1, pixel 2>>
    ref,           \* Python names bound to tensors: name -> address
    tgrad,         \* the .grad field of every tensor (zeros when None)
    requires_grad, \* the addresses of the tensors with requires_grad = True
    optimizer,     \* torch.optim.Adam: [params, lr, exp_avg]
    ox,            \* the random jitter of the current iteration
    \* ---- assignment2: normalisation and dropout layers
    bn_param,      \* the dict passed to batchnorm_forward
    ln_param,      \* the dict passed to layernorm_forward
    gamma, beta,   \* scale and shift parameters
    a_in,          \* the activations `a` / `x` fed to the layer
    a_norm,        \* the layer's last output
    calls,         \* the number of test-time / check calls made
    seen,          \* the (input, output) pairs of the calls made so far
    p_keep,        \* dropout: the keep probability `p` under test, in percent
    out, out_test, \* dropout: train-time and test-time outputs
    \* ---- assignment3: fooling images
    target_y,      \* the class the image is to be classified as
    scores,        \* scores = model(X_fooling), computed for the assertion
    \* ---- assignment2/PyTorch.py: data loaders and shapes
    sample,        \* the example a loader has just drawn: <<>> or [loader, train, idx]
    net,           \* the shapes of the arguments of three_layer_convnet
    shape,         \* the shape of the tensor three_layer_convnet has computed last
    \* ---- assignment2/BatchNormalization.py: the two backward passes
    dout,          \* the upstream gradient
    cache,         \* the cache batchnorm_forward returned: <<>> or [xc, std, xhat, gamma]
    grads1,        \* (dx1, dgamma1, dbeta1) of batchnorm_backward: <<>> or [dx, dgamma, dbeta]
    grads2,        \* (dx2, dgamma2, dbeta2) of batchnorm_backward_alt
    \* ---- assignment2/PyTorch.py: the work train_part34 does
    batches,       \* len(loader_train): the minibatches one pass over the loader yields
    steps,         \* the optimizer.step() calls made so far
    checks         \* the check_accuracy_part34 calls made so far

trainVars == <<params, grad, graph, x, y, e, t, i, epochs, learning_rate, training>>

imgVars == <<script, tensor, ref, tgrad, requires_grad, optimizer, ox>>

layerVars == <<bn_param, ln_param, gamma, beta, a_in, a_norm, calls, seen, p_keep, out, out_test>>

foolVars == <<target_y, scores>>

dataVars == <<sample, net, shape>>

bwdVars == <<dout, cache, grads1, grads2>>

countVars == <<batches, steps, checks>>

vars == <<pc, trainVars, imgVars, layerVars, foolVars, dataVars, bwdVars, countVars>>

\* what the scripts of one group leave alone
notTrainCount == <<imgVars, layerVars, foolVars, dataVars, bwdVars>>
notTrain == <<notTrainCount, countVars>>
notImg == <<trainVars, layerVars, foolVars, dataVars, bwdVars, countVars>>
notLayer == <<trainVars, imgVars, foolVars, dataVars, bwdVars, countVars>>
notData == <<trainVars, imgVars, layerVars, foolVars, bwdVars, countVars>>
notBwd == <<trainVars, imgVars, foolVars, dataVars, countVars>>

-----------------------------------------------------------------------------
(* Bounds of the model *)

\* number of minibatches loader_train yields in one pass
NumBatches == 3
\* largest `epochs` argument explored
MaxEpochs == 2
\* largest absolute value of a stale gradient left in .grad before training
MaxStaleGrad == 1
\* largest (integer) learning rate explored
MaxLearningRate == 2

(* Program constants *)

\* how frequently the training loops print and check accuracy
print_every == 100

-----------------------------------------------------------------------------
(* Autograd on a one-weight, one-bias linear model.  An integer squared-error *)
(* loss stands for F.cross_entropy: what matters is that the gradient is a    *)
(* function of the parameters and the minibatch of the forward pass.          *)

\* the minibatches the loaders may yield
BatchX == {-1, 1}
BatchY == {0, 1}

\* scores = model(x)
Scores(p, xx) == p[1] * xx + p[2]

\* the loss tensor and its graph, as built by a forward pass
Forward(p, xx, yy) == [w |-> p[1], b |-> p[2], x |-> xx, y |-> yy, freed |-> FALSE]

\* d loss / d params for loss = (scores - y)^2 / 2, evaluated on a saved graph
LossGrad(g) == <<(Scores(<<g.w, g.b>>, g.x) - g.y) * g.x,
                 (Scores(<<g.w, g.b>>, g.x) - g.y)>>

\* loss.backward() ACCUMULATES into .grad
Accumulate(gr, d) == <<gr[1] + d[1], gr[2] + d[2]>>

\* optim.SGD.step on the optimizer's parameter list
SGDStep(p, gr, lr) == <<p[1] - lr * gr[1], p[2] - lr * gr[2]>>

\* the state of the training variables while another script runs
TrainIdle ==
    /\ params = <<0, 0>> /\ grad = <<0, 0>> /\ graph = <<>>
    /\ x = 0 /\ y = 0 /\ e = 0 /\ t = 0 /\ i = 1
    /\ epochs = 1 /\ learning_rate = 1 /\ training = TRUE

\* the state of the image-optimisation variables while another script runs
ImgIdle ==
    /\ script = "none"
    /\ tensor = <<>> /\ ref = <<>> /\ tgrad = <<>>
    /\ requires_grad = {} /\ optimizer = <<>> /\ ox = 0
    /\ target_y = 0 /\ scores = <<>>

\* a Python dict of layer parameters: 'mode' and the running averages, each
\* present or absent
Dict(mode) == [mode |-> mode, has_running |-> FALSE, running_mean |-> 0, running_var |-> 0]

\* the state of the loader and shape variables while another script runs
DataIdle == sample = <<>> /\ net = <<>> /\ shape = <<>>

\* the state of the counters while another script runs
CountIdle == batches = 0 /\ steps = 0 /\ checks = 0

\* the state of the backward-pass variables while another script runs
BwdIdle == dout = <<>> /\ cache = <<>> /\ grads1 = <<>> /\ grads2 = <<>>

\* the state of the layer variables while another script runs
LayerIdle ==
    /\ bn_param = Dict("absent") /\ ln_param = Dict("absent")
    /\ gamma = 1 /\ beta = 0 /\ a_in = <<0, 0>> /\ a_norm = <<0, 0>>
    /\ calls = 0 /\ seen = {} /\ p_keep = 0 /\ out = <<>> /\ out_test = <<>>

-----------------------------------------------------------------------------
(* train_part2(model_fn, params, learning_rate) *)

\* params come from random_weight / zero_weight: requires_grad, .grad is None
InitTrain2 ==
    /\ pc = "loop"
    /\ params \in {<<0, 0>>, <<1, 0>>, <<-1, 0>>}
    /\ grad = <<0, 0>>
    /\ graph = <<>>
    /\ x = 0 /\ y = 0
    /\ e = 0 /\ t = 0 /\ i = 1
    /\ epochs = 1
    /\ learning_rate \in 1..MaxLearningRate
    /\ training = TRUE
    /\ ImgIdle
    /\ LayerIdle
    /\ DataIdle
    /\ BwdIdle
    /\ CountIdle

\* for t, (x, y) in enumerate(loader_train):
Train2NextBatch ==
    /\ UNCHANGED notTrain
    /\ pc = "loop"
    /\ t < NumBatches
    /\ \E bx \in BatchX, by \in BatchY : x' = bx /\ y' = by
    /\ pc' = "forward"
    /\ UNCHANGED <<params, grad, graph, e, t, i, epochs, learning_rate, training>>

\* loader_train is exhausted: return
Train2Return ==
    /\ UNCHANGED notTrain
    /\ pc = "loop"
    /\ t = NumBatches
    /\ pc' = "done"
    /\ UNCHANGED trainVars

\* scores = model_fn(x, params); loss = F.cross_entropy(scores, y)
Train2Forward ==
    /\ UNCHANGED notTrain
    /\ pc = "forward"
    /\ graph' = <<Forward(params, x, y)>>
    /\ pc' = "backward"
    /\ UNCHANGED <<params, grad, x, y, e, t, i, epochs, learning_rate, training>>

\* loss.backward()
Train2Backward ==
    /\ UNCHANGED notTrain
    /\ pc = "backward"
    /\ Len(graph) = 1 /\ ~graph[1].freed
    /\ grad' = Accumulate(grad, LossGrad(graph[1]))
    /\ graph' = <<[graph[1] EXCEPT !.freed = TRUE]>>
    /\ i' = 1
    /\ pc' = "update"
    /\ UNCHANGED <<params, x, y, e, t, epochs, learning_rate, training>>

\* with torch.no_grad(): for w in params: w -= learning_rate * w.grad
Train2Update ==
    /\ UNCHANGED notTrain
    /\ pc = "update"
    /\ params' = [params EXCEPT ![i] = @ - learning_rate * grad[i]]
    /\ pc' = "zero"
    /\ UNCHANGED <<grad, graph, x, y, e, t, i, epochs, learning_rate, training>>

\* w.grad.zero_(), broken: the gradient is left in place
Train2GradZeroSkipped ==
    /\ UNCHANGED notTrain
    /\ pc = "zero"
    /\ i' = i + 1
    /\ pc' = IF i = Len(params) THEN "print" ELSE "update"
    /\ UNCHANGED <<params, grad, graph, x, y, e, t, epochs, learning_rate, training>>

\* w.grad.zero_()
Train2GradZero ==
    /\ UNCHANGED notTrain
    /\ pc = "zero"
    /\ grad' = [grad EXCEPT ![i] = 0]
    /\ i' = i + 1
    /\ pc' = IF i = Len(params) THEN "print" ELSE "update"
    /\ UNCHANGED <<params, graph, x, y, e, t, epochs, learning_rate, training>>

\* if t % print_every == 0: print(loss.item()); check_accuracy_part2(loader_val, ...)
\* (check_accuracy_part2 runs under torch.no_grad() and writes nothing)
Train2Check ==
    /\ UNCHANGED notTrain
    /\ pc = "print"
    /\ t % print_every = 0
    /\ Len(graph) = 1
    /\ t' = t + 1
    /\ pc' = "loop"
    /\ UNCHANGED <<params, grad, graph, x, y, e, i, epochs, learning_rate, training>>

Train2NoCheck ==
    /\ UNCHANGED notTrain
    /\ pc = "print"
    /\ t % print_every # 0
    /\ t' = t + 1
    /\ pc' = "loop"
    /\ UNCHANGED <<params, grad, graph, x, y, e, i, epochs, learning_rate, training>>

NextTrain2 ==
    \/ Train2NextBatch
    \/ Train2Return
    \/ Train2Forward
    \/ Train2Backward
    \/ Train2Update
    \/ Train2GradZero
    \/ Train2Check
    \/ Train2NoCheck

SpecTrain2 == InitTrain2 /\ [][NextTrain2]_vars

-----------------------------------------------------------------------------
(* train_part34(model, optimizer, epochs) *)

StaleGrads == (-MaxStaleGrad)..MaxStaleGrad

\* the model may have been trained or back-propagated through before the call:
\* .grad holds whatever was left there
InitTrain34 ==
    /\ pc = "loop"
    /\ params \in {<<0, 0>>, <<1, 0>>}
    /\ grad \in StaleGrads \X StaleGrads
    /\ graph = <<>>
    /\ x = 0 /\ y = 0
    /\ e = 0 /\ t = 0 /\ i = 1
    /\ epochs \in 1..MaxEpochs
    /\ learning_rate \in 1..MaxLearningRate
    /\ training \in BOOLEAN
    /\ ImgIdle
    /\ LayerIdle
    /\ DataIdle
    /\ BwdIdle
    /\ batches \in 1..NumBatches
    /\ steps = 0 /\ checks = 0

\* for e in range(epochs): for t, (x, y) in enumerate(loader_train): model.train()
Train34NextBatch ==
    /\ UNCHANGED notTrain
    /\ pc = "loop"
    /\ e < epochs
    /\ t < batches
    /\ \E bx \in BatchX, by \in BatchY : x' = bx /\ y' = by
    /\ training' = TRUE
    /\ pc' = "forward"
    /\ UNCHANGED <<params, grad, graph, e, t, i, epochs, learning_rate>>

\* the inner loop is exhausted: next epoch
Train34NextEpoch ==
    /\ UNCHANGED notTrain
    /\ pc = "loop"
    /\ e < epochs
    /\ t = batches
    /\ e' = e + 1
    /\ t' = 0
    /\ UNCHANGED <<pc, params, grad, graph, x, y, i, epochs, learning_rate, training>>

\* the outer loop is exhausted: return
Train34Return ==
    /\ UNCHANGED notTrain
    /\ pc = "loop"
    /\ e = epochs
    /\ pc' = "done"
    /\ UNCHANGED trainVars

\* scores = model(x); loss = F.cross_entropy(scores, y)
Train34Forward ==
    /\ UNCHANGED notTrain
    /\ pc = "forward"
    /\ graph' = <<Forward(params, x, y)>>
    /\ pc' = "zero_grad"
    /\ UNCHANGED <<params, grad, x, y, e, t, i, epochs, learning_rate, training>>

\* optimizer.zero_grad(), broken: leaves .grad as it is
Train34ZeroGradSkipped ==
    /\ UNCHANGED notTrain
    /\ pc = "zero_grad"
    /\ pc' = "backward"
    /\ UNCHANGED trainVars

\* optimizer.zero_grad()
Train34ZeroGrad ==
    /\ UNCHANGED notTrain
    /\ pc = "zero_grad"
    /\ grad' = <<0, 0>>
    /\ pc' = "backward"
    /\ UNCHANGED <<params, graph, x, y, e, t, i, epochs, learning_rate, training>>

\* loss.backward(): adds d loss / d param to every .grad and frees the graph's buffers
Train34Backward ==
    /\ UNCHANGED notTrain
    /\ pc = "backward"
    /\ Len(graph) = 1 /\ ~graph[1].freed
    /\ grad' = Accumulate(grad, LossGrad(graph[1]))
    /\ graph' = <<[graph[1] EXCEPT !.freed = TRUE]>>
    /\ pc' = "step"
    /\ UNCHANGED <<params, x, y, e, t, i, epochs, learning_rate, training>>

\* optimizer.step()
Train34Step ==
    /\ UNCHANGED notTrainCount
    /\ pc = "step"
    /\ params' = SGDStep(params, grad, learning_rate)
    /\ steps' = steps + 1
    /\ UNCHANGED <<batches, checks>>
    /\ pc' = "print"
    /\ UNCHANGED <<grad, graph, x, y, e, t, i, epochs, learning_rate, training>>

\* check_accuracy_part34, broken: made at every iteration
Train34CheckAlways ==
    /\ UNCHANGED notTrainCount
    /\ pc = "print"
    /\ training' = FALSE
    /\ checks' = checks + 1
    /\ UNCHANGED <<batches, steps>>
    /\ t' = t + 1
    /\ pc' = "loop"
    /\ UNCHANGED <<params, grad, graph, x, y, e, i, epochs, learning_rate>>

\* if t % print_every == 0: check_accuracy_part34(loader_val, model)   (model.eval())
Train34Check ==
    /\ UNCHANGED notTrainCount
    /\ pc = "print"
    /\ t % print_every = 0
    /\ training' = FALSE
    /\ checks' = checks + 1
    /\ UNCHANGED <<batches, steps>>
    /\ t' = t + 1
    /\ pc' = "loop"
    /\ UNCHANGED <<params, grad, graph, x, y, e, i, epochs, learning_rate>>

Train34NoCheck ==
    /\ UNCHANGED notTrain
    /\ pc = "print"
    /\ t % print_every # 0
    /\ t' = t + 1
    /\ pc' = "loop"
    /\ UNCHANGED <<params, grad, graph, x, y, e, i, epochs, learning_rate, training>>

NextTrain34 ==
    \/ Train34NextBatch
    \/ Train34NextEpoch
    \/ Train34Return
    \/ Train34Forward
    \/ Train34ZeroGrad
    \/ Train34Backward
    \/ Train34Step
    \/ Train34Check
    \/ Train34NoCheck

SpecTrain34 == InitTrain34 /\ [][NextTrain34]_vars

-----------------------------------------------------------------------------
(* assignment3: tensors.  A tensor is a storage cell (an address) holding   *)
(* two pixels; Python names are bound to addresses, so two names may share   *)
(* one storage.  Pixel values are fixed-point integers.                      *)

Sign(n) == IF n > 0 THEN 1 ELSE IF n < 0 THEN -1 ELSE 0

Clamp(v, lo, hi) == IF v < lo THEN lo ELSE IF v > hi THEN hi ELSE v

Zeros == <<0, 0>>

\* x.clone(), broken: the same storage under a second name
NoClone(a, fresh) == a

\* x.clone(): a new tensor, at a fresh address, holding the same values
Clone(a, fresh) == fresh

\* extract_features(img, cnn): one linear layer, feature k = weight k * pixel k
Feats(im, c) == <<c[1] * im[1], c[2] * im[2]>>

\* gram_matrix(features): a 1 x 1 Gram matrix
Gram(f) == f[1] * f[1] + f[2] * f[2]

\* d (content_loss + style_loss) / d feature k, weights 1
FeatGrad(f, ct, st, k) == 2 * (f[k] - ct[k]) + 4 * (Gram(f) - st[1]) * f[k]

\* d tv_loss / d pixel k
TvGrad(im, k) == IF k = 1 THEN -2 * (im[2] - im[1]) ELSE 2 * (im[2] - im[1])

\* d loss / d img and d loss / d cnn of style_transfer's loss
StyleGradImg(im, c, ct, st) ==
    [k \in 1..2 |-> FeatGrad(Feats(im, c), ct, st, k) * c[k] + TvGrad(im, k)]
StyleGradCnn(im, c, ct, st) ==
    [k \in 1..2 |-> FeatGrad(Feats(im, c), ct, st, k) * im[k]]

\* torch.optim.Adam(params, lr): fresh moment estimates
Adam(ps, lr) == [params |-> ps, lr |-> lr, exp_avg |-> [a \in ps |-> Zeros]]

\* Adam's first moment after one more gradient (scaled by 10: beta1 = 0.9)
ExpAvg(m, g) == [k \in 1..2 |-> (9 * m[k]) \div 10 + g[k]]

\* Adam's update of one tensor: lr * m / (sqrt(v) + eps), its size taken as 1
AdamUpdate(v, m, lr) == [k \in 1..2 |-> v[k] - lr * Sign(m[k])]

(* Bounds *)

\* largest pixel / weight value of the initial tensors
MaxPixel == 1

(* Program constants of style_transfer (learning rates and pixels scaled by 10) *)
initial_lr == 30
decayed_lr == 1
decay_lr_at == 180
style_iterations == 200
clamp_until == 190

Images == {<<p, q>> : p \in 0..MaxPixel, q \in (-MaxPixel)..MaxPixel}
CnnWeights == {<<1, p>> : p \in 1..(MaxPixel + 1)}
\* torch.Tensor(size).uniform_(0, 1), scaled by 10
RandomImages == {<<0, 10>>, <<5, 5>>}

StyleAddr == 1..6

-----------------------------------------------------------------------------
(* style_transfer(...) : the state when the loop is entered *)

InitStyle ==
    /\ pc = "st_loop"
    /\ TrainIdle
    /\ LayerIdle
    /\ DataIdle
    /\ BwdIdle
    /\ CountIdle
    /\ script = "style_transfer"
    /\ target_y = 0 /\ scores = <<>>
    /\ ox = 0
    /\ \E c \in CnnWeights, ci \in Images, si \in Images,
          init_random \in BOOLEAN, rnd \in RandomImages :
          /\ ref = [cnn |-> 1, content_img |-> 2, content_target |-> 3,
                    style_img |-> 4, style_targets |-> 5,
                    img |-> IF init_random THEN 6 ELSE Clone(2, 6)]
          /\ tensor = [a \in StyleAddr |->
                         CASE a = 1 -> c
                           [] a = 2 -> ci
                           [] a = 3 -> Feats(ci, c)
                           [] a = 4 -> si
                           [] a = 5 -> <<Gram(Feats(si, c)), 0>>
                           [] a = 6 -> IF init_random THEN rnd ELSE ci]
    /\ tgrad = [a \in StyleAddr |-> Zeros]
    \* cnn: param.requires_grad = False;  img.requires_grad_()
    /\ requires_grad = {ref.img}
    /\ optimizer = Adam({ref.img}, initial_lr)

\* for t in range(200): if t < 190: img.data.clamp_(-1.5, 1.5)
StClamp ==
    /\ pc = "st_loop"
    /\ script = "style_transfer"
    /\ t < style_iterations
    /\ tensor' = IF t < clamp_until
                 THEN [tensor EXCEPT ![ref.img] =
                          [k \in 1..2 |-> Clamp(@[k], -15, 15)]]
                 ELSE tensor
    /\ pc' = "st_zero_grad"
    /\ UNCHANGED <<script, ref, tgrad, requires_grad, optimizer, ox>>
    /\ UNCHANGED notImg

\* the loop is over (the plots read the tensors through .cpu() copies)
StReturn ==
    /\ pc = "st_loop"
    /\ script = "style_transfer"
    /\ t = style_iterations
    /\ pc' = "done"
    /\ UNCHANGED imgVars
    /\ UNCHANGED notImg

\* optimizer.zero_grad()
StZeroGrad ==
    /\ pc = "st_zero_grad"
    /\ tgrad' = [a \in DOMAIN tgrad |-> IF a \in optimizer.params THEN Zeros ELSE tgrad[a]]
    /\ pc' = "st_backward"
    /\ UNCHANGED <<script, tensor, ref, requires_grad, optimizer, ox>>
    /\ UNCHANGED notImg

\* feats = extract_features(img, cnn); loss = c_loss + s_loss + t_loss; loss.backward():
\* every leaf of the graph that requires grad gets its gradient added
StBackward ==
    /\ pc = "st_backward"
    /\ LET im == tensor[ref.img]
           c  == tensor[ref.cnn]
           ct == tensor[ref.content_target]
           st == tensor[ref.style_targets]
           d(a) == [k \in 1..2 |->
                      (IF a = ref.img THEN StyleGradImg(im, c, ct, st)[k] ELSE 0)
                    + (IF a = ref.cnn THEN StyleGradCnn(im, c, ct, st)[k] ELSE 0)]
       IN tgrad' = [a \in DOMAIN tgrad |->
                      IF a \in requires_grad /\ a \in {ref.img, ref.cnn}
                      THEN [k \in 1..2 |-> tgrad[a][k] + d(a)[k]]
                      ELSE tgrad[a]]
    /\ pc' = "st_decay"
    /\ UNCHANGED <<script, tensor, ref, requires_grad, optimizer, ox>>
    /\ UNCHANGED notImg

\* if t == decay_lr_at: optimizer = torch.optim.Adam([img], lr=decayed_lr)
StNewOptimizer ==
    /\ pc = "st_decay"
    /\ t = decay_lr_at
    /\ optimizer' = Adam({ref.img}, decayed_lr)
    /\ pc' = "st_step"
    /\ UNCHANGED <<script, tensor, ref, tgrad, requires_grad, ox>>
    /\ UNCHANGED notImg

StKeepOptimizer ==
    /\ pc = "st_decay"
    /\ t # decay_lr_at
    /\ pc' = "st_step"
    /\ UNCHANGED imgVars
    /\ UNCHANGED notImg

\* optimizer.step(): every tensor the optimizer holds that has a gradient is updated
StStep ==
    /\ pc = "st_step"
    /\ LET upd == {a \in optimizer.params : a \in requires_grad}
           m(a) == ExpAvg(optimizer.exp_avg[a], tgrad[a])
       IN /\ optimizer' = [optimizer EXCEPT !.exp_avg =
                              [a \in optimizer.params |->
                                  IF a \in upd THEN m(a) ELSE optimizer.exp_avg[a]]]
          /\ tensor' = [a \in DOMAIN tensor |->
                          IF a \in upd THEN AdamUpdate(tensor[a], m(a), optimizer.lr)
                                       ELSE tensor[a]]
    /\ t' = t + 1
    /\ pc' = "st_loop"
    /\ UNCHANGED <<script, ref, tgrad, requires_grad, ox>>
    /\ UNCHANGED <<params, grad, graph, x, y, e, i, epochs, learning_rate, training>>
    /\ UNCHANGED <<layerVars, foolVars, dataVars, bwdVars, countVars>>

-----------------------------------------------------------------------------
(* create_class_visualization(target_y, model, dtype) *)

(* Program constants: the keyword defaults *)
cv_learning_rate == 25
num_iterations == 100
blur_every == 10
max_jitter == 16
show_every == 25

\* jitter(X, ox, oy): roll the image by ox along its width (2 pixels wide, 1 high)
Jitter(im, k) == IF k % 2 = 0 THEN im ELSE <<im[2], im[1]>>

\* blur_image(X, sigma): a Gaussian filter over the width, written back into X
Blur(im) == <<(2 * im[1] + im[2]) \div 3, (im[1] + 2 * im[2]) \div 3>>

\* d (s_y(I) - l2_reg * |I|^2) / d pixel k, scaled by 1000 (l2_reg = 1e-3)
ScoreGrad(im, w) == [k \in 1..2 |-> 1000 * w[k] - 2 * im[k]]

\* model.type(dtype) leaves float parameters as they are; requires_grad = False on
\* every model parameter; img = torch.randn(...).requires_grad_()
InitClassVis ==
    /\ pc = "cv_loop"
    /\ TrainIdle
    /\ LayerIdle
    /\ DataIdle
    /\ BwdIdle
    /\ CountIdle
    /\ script = "create_class_visualization"
    /\ target_y = 0 /\ scores = <<>>
    /\ ox = 0
    /\ ref = [model |-> 1, img |-> 2]
    /\ \E w \in CnnWeights \cup {<<0, -1>>}, rnd \in Images :
          tensor = [a \in 1..2 |-> IF a = 1 THEN w ELSE rnd]
    /\ tgrad = [a \in 1..2 |-> Zeros]
    /\ requires_grad = {ref.img}
    /\ optimizer = <<>>

\* ox, oy = random.randint(0, max_jitter), ...; img.data.copy_(jitter(img.data, ox, oy))
CvJitter ==
    /\ pc = "cv_loop"
    /\ script = "create_class_visualization"
    /\ t < num_iterations
    /\ \E k \in 0..max_jitter :
          /\ ox' = k
          /\ tensor' = [tensor EXCEPT ![ref.img] = Jitter(@, k)]
    /\ pc' = "cv_update"
    /\ UNCHANGED <<script, ref, tgrad, requires_grad, optimizer>>
    /\ UNCHANGED notImg

\* return deprocess(img.data.cpu())
CvReturn ==
    /\ pc = "cv_loop"
    /\ script = "create_class_visualization"
    /\ t = num_iterations
    /\ pc' = "done"
    /\ UNCHANGED imgVars
    /\ UNCHANGED notImg

\* class_visualization_update_step(img, model, target_y, l2_reg, learning_rate):
\* backward from the regularised target score, one normalised ascent step on
\* img.data, img.grad zeroed
CvUpdateStep ==
    /\ pc = "cv_update"
    /\ LET g == [k \in 1..2 |-> IF ref.img \in requires_grad
                                THEN tgrad[ref.img][k]
                                     + ScoreGrad(tensor[ref.img], tensor[ref.model])[k]
                                ELSE 0]
       IN tensor' = [tensor EXCEPT ![ref.img] =
                        [k \in 1..2 |-> @[k] + cv_learning_rate * Sign(g[k])]]
    /\ tgrad' = [tgrad EXCEPT ![ref.img] = Zeros]
    /\ pc' = "cv_unjitter"
    /\ UNCHANGED <<script, ref, requires_grad, optimizer, ox>>
    /\ UNCHANGED notImg

\* img.data.copy_(jitter(img.data, -ox, -oy))
CvUnjitter ==
    /\ pc = "cv_unjitter"
    /\ tensor' = [tensor EXCEPT ![ref.img] = Jitter(@, -ox)]
    /\ pc' = "cv_clamp"
    /\ UNCHANGED <<script, ref, tgrad, requires_grad, optimizer, ox>>
    /\ UNCHANGED notImg

\* for c in range(3): img.data[:, c].clamp_(min=lo, max=hi)
CvClamp ==
    /\ pc = "cv_clamp"
    /\ tensor' = [tensor EXCEPT ![ref.img] = [k \in 1..2 |-> Clamp(@[k], -2, 2)]]
    /\ pc' = "cv_blur"
    /\ UNCHANGED <<script, ref, tgrad, requires_grad, optimizer, ox>>
    /\ UNCHANGED notImg

\* if t % blur_every == 0: blur_image(img.data, sigma=0.5)
CvBlur ==
    /\ pc = "cv_blur"
    /\ t % blur_every = 0
    /\ tensor' = [tensor EXCEPT ![ref.img] = Blur(@)]
    /\ pc' = "cv_show"
    /\ UNCHANGED <<script, ref, tgrad, requires_grad, optimizer, ox>>
    /\ UNCHANGED notImg

CvNoBlur ==
    /\ pc = "cv_blur"
    /\ t % blur_every # 0
    /\ pc' = "cv_show"
    /\ UNCHANGED imgVars
    /\ UNCHANGED notImg

\* if t == 0 or (t + 1) % show_every == 0 or t == num_iterations - 1:
\*     plt.imshow(deprocess(img.data.clone().cpu()))        (works on a copy)
CvShow ==
    /\ pc = "cv_show"
    /\ (t = 0 \/ (t + 1) % show_every = 0 \/ t = num_iterations - 1)
    /\ t' = t + 1
    /\ pc' = "cv_loop"
    /\ UNCHANGED imgVars
    /\ UNCHANGED <<params, grad, graph, x, y, e, i, epochs, learning_rate, training>>
    /\ UNCHANGED <<layerVars, foolVars, dataVars, bwdVars, countVars>>

CvNoShow ==
    /\ pc = "cv_show"
    /\ ~(t = 0 \/ (t + 1) % show_every = 0 \/ t = num_iterations - 1)
    /\ t' = t + 1
    /\ pc' = "cv_loop"
    /\ UNCHANGED imgVars
    /\ UNCHANGED <<params, grad, graph, x, y, e, i, epochs, learning_rate, training>>
    /\ UNCHANGED <<layerVars, foolVars, dataVars, bwdVars, countVars>>

InitImageOpt == InitStyle \/ InitClassVis

NextImageOpt ==
    \/ StClamp
    \/ StReturn
    \/ StZeroGrad
    \/ StBackward
    \/ StNewOptimizer
    \/ StKeepOptimizer
    \/ StStep
    \/ CvJitter
    \/ CvReturn
    \/ CvUpdateStep
    \/ CvUnjitter
    \/ CvClamp
    \/ CvBlur
    \/ CvNoBlur
    \/ CvShow
    \/ CvNoShow

SpecImageOpt == InitImageOpt /\ [][NextImageOpt]_vars

-----------------------------------------------------------------------------
(* assignment2: the layers of cs231n/layers.py called by BatchNormalization.py *)
(* and Dropout.py.  An activation array is a pair of integers; normalised      *)
(* values and means carry one decimal digit (scale 10), variances two (scale   *)
(* 100); eps is one unit of the variance scale.                                *)

(* Bounds *)

\* number of train-mode warm-up calls (the script makes 50)
MaxWarmup == 2
\* number of test-mode calls made after the warm-up
MaxTestCalls == 3
\* number of layernorm_forward calls made
MaxLnCalls == 3

\* the activation arrays fed to the layers
Batches == {<<-1, 1>>, <<0, 2>>, <<1, 4>>, <<2, 2>>}

ISqrt(n) == CHOOSE r \in 0..n : r * r <= n /\ n < (r + 1) * (r + 1)

Mean10(v) == (10 * (v[1] + v[2])) \div 2

Var100(v) == ((10 * v[1] - Mean10(v)) * (10 * v[1] - Mean10(v))
              + (10 * v[2] - Mean10(v)) * (10 * v[2] - Mean10(v))) \div 2

\* out = gamma * (x - mean) / sqrt(var + eps) + beta
Normalize(v, mean10, var100, g, b) ==
    [k \in 1..2 |-> g * ((10 * (10 * v[k] - mean10)) \div ISqrt(var100 + 1)) + 10 * b]

\* bn_param.get('running_mean', zeros), bn_param.get('running_var', zeros)
RunningMean(param) == IF param.has_running THEN param.running_mean ELSE 0
RunningVar(param) == IF param.has_running THEN param.running_var ELSE 0

\* batchnorm_forward(x, gamma, beta, bn_param): the output and bn_param as the
\* call leaves it (momentum 0.9).  Both modes store the running averages back.
batchnorm_forward(v, g, b, param) ==
    IF param.mode = "train"
    THEN [out |-> Normalize(v, Mean10(v), Var100(v), g, b),
          param |-> [param EXCEPT
                       !.has_running = TRUE,
                       !.running_mean = (9 * RunningMean(param) + Mean10(v)) \div 10,
                       !.running_var = (9 * RunningVar(param) + Var100(v)) \div 10]]
    ELSE [out |-> Normalize(v, RunningMean(param), RunningVar(param), g, b),
          param |-> [param EXCEPT
                       !.has_running = TRUE,
                       !.running_mean = RunningMean(param),
                       !.running_var = RunningVar(param)]]

\* layernorm_forward(x, gamma, beta, ln_param): normalises each datapoint over
\* its features; reads only eps from ln_param and writes nothing to it
layernorm_forward(v, g, b, param) ==
    [out |-> Normalize(v, Mean10(v), Var100(v), g, b), param |-> param]

\* dropout_forward(x, dropout_param) with the random mask it drew; elements are
\* fractions <<numerator, denominator>>, pp is the keep probability in percent
dropout_forward(v, mode, pp, mask) ==
    IF mode = "train"
    THEN [k \in 1..2 |-> IF mask[k] THEN <<100 * v[k], pp>> ELSE <<0, 1>>]
    ELSE [k \in 1..2 |-> <<v[k], 1>>]

-----------------------------------------------------------------------------
(* BatchNormalization.py: the test-time forward check *)

InitBn ==
    /\ pc = "bn_warmup"
    /\ TrainIdle
    /\ ImgIdle
    /\ bn_param = Dict("train")
    /\ ln_param = Dict("absent")
    /\ gamma \in {1, 2} /\ beta \in {0, 1}
    /\ a_in = <<0, 0>> /\ a_norm = <<0, 0>>
    /\ calls = 0 /\ seen = {} /\ p_keep = 0 /\ out = <<>> /\ out_test = <<>>
    /\ DataIdle
    /\ BwdIdle
    /\ CountIdle

\* for t in range(50): ...; batchnorm_forward(a, gamma, beta, bn_param)
BnWarmup ==
    /\ pc = "bn_warmup"
    /\ t < MaxWarmup
    /\ \E v \in Batches :
          /\ a_in' = v
          /\ a_norm' = batchnorm_forward(v, gamma, beta, bn_param).out
          /\ bn_param' = batchnorm_forward(v, gamma, beta, bn_param).param
    /\ t' = t + 1
    /\ UNCHANGED <<pc, ln_param, gamma, beta, calls, seen, p_keep, out, out_test>>
    /\ UNCHANGED <<params, grad, graph, x, y, e, i, epochs, learning_rate, training>>
    /\ UNCHANGED <<imgVars, foolVars, dataVars, bwdVars, countVars>>

\* bn_param['mode'] = 'test', broken: the mode is left as it is
BnSetTestSkipped ==
    /\ pc = "bn_warmup"
    /\ pc' = "bn_test"
    /\ UNCHANGED layerVars
    /\ UNCHANGED notLayer

\* bn_param['mode'] = 'test'
BnSetTest ==
    /\ pc = "bn_warmup"
    /\ bn_param' = [bn_param EXCEPT !.mode = "test"]
    /\ pc' = "bn_test"
    /\ UNCHANGED <<ln_param, gamma, beta, a_in, a_norm, calls, seen, p_keep, out, out_test>>
    /\ UNCHANGED notLayer

\* a_norm, _ = batchnorm_forward(a, gamma, beta, bn_param)     (any number of times)
BnTestCall ==
    /\ pc = "bn_test"
    /\ calls < MaxTestCalls
    /\ \E v \in Batches :
          /\ a_in' = v
          /\ a_norm' = batchnorm_forward(v, gamma, beta, bn_param).out
          /\ bn_param' = batchnorm_forward(v, gamma, beta, bn_param).param
          /\ seen' = seen \cup {<<v, bn_param.mode,
                                  batchnorm_forward(v, gamma, beta, bn_param).out>>}
    /\ calls' = calls + 1
    /\ UNCHANGED <<pc, ln_param, gamma, beta, p_keep, out, out_test>>
    /\ UNCHANGED notLayer

NextBn ==
    \/ BnWarmup
    \/ BnSetTest
    \/ BnTestCall

SpecBn == InitBn /\ [][NextBn]_vars

-----------------------------------------------------------------------------
(* BatchNormalization.py: the layer normalisation checks *)

LnParams == {Dict("absent"), Dict("train"), Dict("test")}

InitLn ==
    /\ pc = "ln"
    /\ TrainIdle
    /\ ImgIdle
    /\ bn_param = Dict("absent")
    /\ ln_param \in LnParams
    /\ gamma \in {1, 3} /\ beta \in {0, 5}
    /\ a_in = <<0, 0>> /\ a_norm = <<0, 0>>
    /\ calls = 0 /\ seen = {} /\ p_keep = 0 /\ out = <<>> /\ out_test = <<>>
    /\ DataIdle
    /\ BwdIdle
    /\ CountIdle

\* the next call is made with another dict: {'mode': 'train'}, {} (ln_param = {}), ...
LnNewParam ==
    /\ pc = "ln"
    /\ \E d \in LnParams : d # ln_param /\ ln_param' = d
    /\ UNCHANGED <<pc, bn_param, gamma, beta, a_in, a_norm, calls, seen, p_keep, out, out_test>>
    /\ UNCHANGED notLayer

\* the call, broken: batchnorm_forward is called on ln_param (a KeyError without 'mode')
LnCallBatchnorm ==
    /\ pc = "ln"
    /\ calls < MaxLnCalls
    /\ ln_param.mode # "absent"
    /\ \E v \in Batches :
          /\ a_in' = v
          /\ a_norm' = batchnorm_forward(v, gamma, beta, ln_param).out
          /\ ln_param' = batchnorm_forward(v, gamma, beta, ln_param).param
          /\ seen' = seen \cup {<<v, ln_param.mode,
                                  batchnorm_forward(v, gamma, beta, ln_param).out>>}
    /\ calls' = calls + 1
    /\ UNCHANGED <<pc, bn_param, gamma, beta, p_keep, out, out_test>>
    /\ UNCHANGED notLayer

\* a_norm, _ = layernorm_forward(a, gamma, beta, ln_param)
LnCall ==
    /\ pc = "ln"
    /\ calls < MaxLnCalls
    /\ \E v \in Batches :
          /\ a_in' = v
          /\ a_norm' = layernorm_forward(v, gamma, beta, ln_param).out
          /\ ln_param' = layernorm_forward(v, gamma, beta, ln_param).param
          /\ seen' = seen \cup {<<v, ln_param.mode,
                                  layernorm_forward(v, gamma, beta, ln_param).out>>}
    /\ calls' = calls + 1
    /\ UNCHANGED <<pc, bn_param, gamma, beta, p_keep, out, out_test>>
    /\ UNCHANGED notLayer

NextLn ==
    \/ LnNewParam
    \/ LnCall

SpecLn == InitLn /\ [][NextLn]_vars

-----------------------------------------------------------------------------
(* Dropout.py: the dropout forward test *)

\* for p in [0.25, 0.4, 0.7], in percent
DropoutPs == <<25, 40, 70>>

InitDropout ==
    /\ pc = "do_train"
    /\ TrainIdle
    /\ ImgIdle
    /\ bn_param = Dict("absent") /\ ln_param = Dict("absent")
    /\ gamma = 1 /\ beta = 0
    /\ a_in \in Batches
    /\ a_norm = <<0, 0>>
    /\ calls = 0 /\ seen = {}
    /\ p_keep = DropoutPs[1]
    /\ out = <<>> /\ out_test = <<>>
    /\ DataIdle
    /\ BwdIdle
    /\ CountIdle

\* out, _ = dropout_forward(x, {'mode': 'train', 'p': p})
DoTrainCall ==
    /\ pc = "do_train"
    /\ \E mask \in [1..2 -> BOOLEAN] : out' = dropout_forward(a_in, "train", p_keep, mask)
    /\ pc' = "do_test"
    /\ UNCHANGED <<bn_param, ln_param, gamma, beta, a_in, a_norm, calls, seen, p_keep, out_test>>
    /\ UNCHANGED notLayer

\* the test-time call, broken: made with 'mode': 'train'
DoTestCallTrainMode ==
    /\ pc = "do_test"
    /\ \E mask \in [1..2 -> BOOLEAN] : out_test' = dropout_forward(a_in, "train", p_keep, mask)
    /\ pc' = "do_stats"
    /\ UNCHANGED <<bn_param, ln_param, gamma, beta, a_in, a_norm, calls, seen, p_keep, out>>
    /\ UNCHANGED notLayer

\* out_test, _ = dropout_forward(x, {'mode': 'test', 'p': p})
DoTestCall ==
    /\ pc = "do_test"
    /\ \E mask \in [1..2 -> BOOLEAN] : out_test' = dropout_forward(a_in, "test", p_keep, mask)
    /\ pc' = "do_stats"
    /\ UNCHANGED <<bn_param, ln_param, gamma, beta, a_in, a_norm, calls, seen, p_keep, out>>
    /\ UNCHANGED notLayer

\* the prints; then the next p
DoNextP ==
    /\ pc = "do_stats"
    /\ calls + 1 < Len(DropoutPs)
    /\ calls' = calls + 1
    /\ p_keep' = DropoutPs[calls + 2]
    /\ pc' = "do_train"
    /\ UNCHANGED <<bn_param, ln_param, gamma, beta, a_in, a_norm, seen, out, out_test>>
    /\ UNCHANGED notLayer

DoDone ==
    /\ pc = "do_stats"
    /\ calls + 1 = Len(DropoutPs)
    /\ pc' = "done"
    /\ UNCHANGED <<layerVars, foolVars, dataVars, bwdVars, countVars>>
    /\ UNCHANGED notLayer

NextDropout ==
    \/ DoTrainCall
    \/ DoTestCall
    \/ DoNextP
    \/ DoDone

SpecDropout == InitDropout /\ [][NextDropout]_vars

-----------------------------------------------------------------------------
(* NetworkVisualization: make_fooling_image and the assertion after it.      *)
(* The classifier is linear over the two pixels: class c has the weight row  *)
(* stored at address c; pixels of the images are scaled by 10.               *)

(* Bounds *)

\* the gradient-ascent loop is followed for at most this many steps
MaxAscent == 4

Classes == 1..3

\* the weight rows a class may have (none is zero: the gradient has a direction)
WeightRows == {<<1, 0>>, <<0, 1>>, <<-1, 1>>, <<2, 1>>}

\* the images of the validation set, scaled by 10
FoolImages == {<<0, 0>>, <<10, -10>>, <<-20, 10>>}

\* model(X): one score per class
ModelScores(ten, im) == [c \in Classes |-> ten[c][1] * im[1] + ten[c][2] * im[2]]

\* scores.max(1)[1] / tf.math.argmax: the first class with the highest score
Argmax(sc) == CHOOSE c \in Classes :
                 /\ \A c2 \in Classes : sc[c2] <= sc[c]
                 /\ \A c2 \in Classes : c2 < c => sc[c2] < sc[c]

\* dX = learning_rate * g / ||g||  (learning_rate = 1, i.e. 10 on the pixel scale)
AscentStep(g) == [k \in 1..2 |-> (10 * g[k]) \div ISqrt(g[1] * g[1] + g[2] * g[2])]

\* X_fooling = X.clone().requires_grad_() inside make_fooling_image
InitFooling ==
    /\ pc = "fool_loop"
    /\ TrainIdle
    /\ LayerIdle
    /\ DataIdle
    /\ BwdIdle
    /\ CountIdle
    /\ script = "make_fooling_image"
    /\ ox = 0
    /\ target_y \in Classes
    /\ scores = <<>>
    /\ ref = [model |-> 1, X |-> 4, X_fooling |-> Clone(4, 5)]
    /\ \E w1 \in WeightRows, w2 \in WeightRows, w3 \in WeightRows, im \in FoolImages :
          tensor = [a \in 1..5 |-> CASE a = 1 -> w1 [] a = 2 -> w2 [] a = 3 -> w3
                                     [] a = 4 -> im [] a = 5 -> im]
    /\ tgrad = [a \in 1..5 |-> Zeros]
    /\ requires_grad = {ref.X_fooling}
    /\ optimizer = <<>>

\* one iteration of make_fooling_image that does not stop: the image is not
\* classified as target_y; backward from the target score, one normalised
\* ascent step on X_fooling.data, X_fooling.grad zeroed
FoolAscend ==
    /\ pc = "fool_loop"
    /\ script = "make_fooling_image"
    /\ Argmax(ModelScores(tensor, tensor[ref.X_fooling])) # target_y
    /\ t < MaxAscent
    /\ tensor' = [tensor EXCEPT ![ref.X_fooling] =
                     [k \in 1..2 |-> @[k] + AscentStep(tensor[target_y])[k]]]
    /\ t' = t + 1
    /\ UNCHANGED <<pc, script, ref, tgrad, requires_grad, optimizer, ox>>
    /\ UNCHANGED <<params, grad, graph, x, y, e, i, epochs, learning_rate, training>>
    /\ UNCHANGED <<layerVars, foolVars, dataVars, bwdVars, countVars>>

\* make_fooling_image stops: the network classifies the image as target_y
FoolReturn ==
    /\ pc = "fool_loop"
    /\ script = "make_fooling_image"
    /\ Argmax(ModelScores(tensor, tensor[ref.X_fooling])) = target_y
    /\ pc' = "fool_scores"
    /\ UNCHANGED imgVars
    /\ UNCHANGED notImg

\* scores = model(X_fooling), broken: the scores of the original image
FoolScoresOfOriginal ==
    /\ pc = "fool_scores"
    /\ scores' = ModelScores(tensor, tensor[ref.X])
    /\ pc' = "fool_assert"
    /\ UNCHANGED target_y
    /\ UNCHANGED imgVars
    /\ UNCHANGED <<trainVars, layerVars, dataVars, bwdVars, countVars>>

\* scores = model(X_fooling)
FoolScores ==
    /\ pc = "fool_scores"
    /\ scores' = ModelScores(tensor, tensor[ref.X_fooling])
    /\ pc' = "fool_assert"
    /\ UNCHANGED target_y
    /\ UNCHANGED imgVars
    /\ UNCHANGED <<trainVars, layerVars, dataVars, bwdVars, countVars>>

\* assert target_y == scores.data.max(1)[1][0].item(), 'The model is not fooled!'
FoolAssert ==
    /\ pc = "fool_assert"
    /\ pc' = IF target_y = Argmax(scores) THEN "done" ELSE "AssertionError"
    /\ UNCHANGED imgVars
    /\ UNCHANGED notImg

NextFooling ==
    \/ FoolAscend
    \/ FoolReturn
    \/ FoolScores
    \/ FoolAssert

SpecFooling == InitFooling /\ [][NextFooling]_vars

-----------------------------------------------------------------------------
(* PyTorch.py: the three data loaders *)

(* Program constants *)
NUM_TRAIN == 49000
\* the end of the range loader_val samples from
VAL_END == 50000
\* the number of images of CIFAR-10's training set (train=True) and test set (train=False)
CIFAR10_TRAIN_LEN == 50000
CIFAR10_TEST_LEN == 10000

\* range(a, b)
Range(lo, hi) == lo..(hi - 1)

\* sampler.SubsetRandomSampler(range(NUM_TRAIN))
loader_train_indices == Range(0, NUM_TRAIN)

\* the sampler of loader_val, broken: the range starts one index early
loader_val_indices_overlapping == Range(NUM_TRAIN - 1, VAL_END)

\* sampler.SubsetRandomSampler(range(NUM_TRAIN, 50000))
loader_val_indices == Range(NUM_TRAIN, VAL_END)

\* DataLoader(cifar10_test, batch_size=64): no sampler, every index of the dataset
loader_test_indices == Range(0, CIFAR10_TEST_LEN)

InitLoaders ==
    /\ pc = "loaders"
    /\ TrainIdle /\ ImgIdle /\ LayerIdle
    /\ sample = <<>> /\ net = <<>> /\ shape = <<>>
    /\ BwdIdle
    /\ CountIdle

\* loader_train yields an example of cifar10_train (train=True)
LoaderTrainDraw ==
    /\ pc = "loaders"
    /\ sample = <<>>
    /\ \E k \in loader_train_indices :
          sample' = [loader |-> "loader_train", train |-> TRUE, idx |-> k]
    /\ UNCHANGED <<pc, net, shape>>
    /\ UNCHANGED notData

\* loader_val yields an example of cifar10_val (train=True)
LoaderValDraw ==
    /\ pc = "loaders"
    /\ sample = <<>>
    /\ \E k \in loader_val_indices :
          sample' = [loader |-> "loader_val", train |-> TRUE, idx |-> k]
    /\ UNCHANGED <<pc, net, shape>>
    /\ UNCHANGED notData

\* loader_test yields an example of cifar10_test (train=False)
LoaderTestDraw ==
    /\ pc = "loaders"
    /\ sample = <<>>
    /\ \E k \in loader_test_indices :
          sample' = [loader |-> "loader_test", train |-> FALSE, idx |-> k]
    /\ UNCHANGED <<pc, net, shape>>
    /\ UNCHANGED notData

\* the example is consumed by the loop that iterates over the loader
LoaderConsume ==
    /\ pc = "loaders"
    /\ sample # <<>>
    /\ sample' = <<>>
    /\ UNCHANGED <<pc, net, shape>>
    /\ UNCHANGED notData

NextLoaders ==
    \/ LoaderTrainDraw
    \/ LoaderValDraw
    \/ LoaderTestDraw
    \/ LoaderConsume

SpecLoaders == InitLoaders /\ [][NextLoaders]_vars

-----------------------------------------------------------------------------
(* PyTorch.py: three_layer_convnet(x, params), followed on the shapes *)

(* Bounds *)

\* largest height / width of the small images explored (next to 32 x 32)
MaxHW == 3

\* F.conv2d(x, weight, bias, padding), stride 1: the output's shape, <<>> on a
\* RuntimeError (channel mismatch, kernel larger than the padded input)
Conv2dShape(sh, w, padding) ==
    IF \/ sh[2] # w[2]
       \/ sh[3] + 2 * padding < w[3]
       \/ sh[4] + 2 * padding < w[4]
    THEN <<>>
    ELSE <<sh[1], w[1], sh[3] + 2 * padding - w[3] + 1, sh[4] + 2 * padding - w[4] + 1>>

\* flatten(x): x.view(N, -1)
Flatten(sh) == <<sh[1], sh[2] * sh[3] * sh[4]>>

\* a.mm(b): <<>> on a size mismatch
MmShape(sa, sb) == IF sa[2] # sb[1] THEN <<>> ELSE <<sa[1], sb[2]>>

Kernels == {<<5, 5>>, <<3, 3>>, <<5, 3>>}

\* the arguments: x of shape (N, 3, H, W) and the six parameter tensors
ConvnetArgs ==
    UNION { { [x |-> <<n, 3, hw[1], hw[2]>>,
               conv_w1 |-> <<6, 3, k1[1], k1[2]>>,
               conv_w2 |-> <<9, 6, k2[1], k2[2]>>,
               fc_w |-> <<rows, 10>>] :
                 n \in {1, 64}, k1 \in Kernels, k2 \in Kernels,
                 rows \in {9 * hw[1] * hw[2], 9 * 32 * 32} } :
            hw \in (1..MaxHW \cup {32}) \X (1..MaxHW \cup {32}) }

InitConvnet ==
    /\ pc = "conv1"
    /\ TrainIdle /\ ImgIdle /\ LayerIdle
    /\ sample = <<>>
    /\ net \in ConvnetArgs
    /\ shape = net.x
    /\ BwdIdle
    /\ CountIdle

\* one step on the shapes: the next position, or a RuntimeError
ConvnetStep(from, result, to) ==
    /\ pc = from
    /\ shape' = result
    /\ pc' = IF result = <<>> THEN "RuntimeError" ELSE to
    /\ UNCHANGED <<sample, net>>
    /\ UNCHANGED notData

\* conv1 = F.conv2d(x, ...), broken: padding=1
ConvnetConv1Padding1 == ConvnetStep("conv1", Conv2dShape(shape, net.conv_w1, 1), "relu1")

\* conv1 = F.conv2d(x, weight = conv_w1, bias=conv_b1, padding=2)
ConvnetConv1 == ConvnetStep("conv1", Conv2dShape(shape, net.conv_w1, 2), "relu1")

\* relu1 = F.relu(conv1)
ConvnetRelu1 == ConvnetStep("relu1", shape, "conv2")

\* conv2 = F.conv2d(relu1, weight=conv_w2, bias=conv_b2, padding =1)
ConvnetConv2 == ConvnetStep("conv2", Conv2dShape(shape, net.conv_w2, 1), "relu2")

\* relu2 = F.relu(conv2)
ConvnetRelu2 == ConvnetStep("relu2", shape, "flatten")

\* relu2_flattened = flatten(relu2)
ConvnetFlatten == ConvnetStep("flatten", Flatten(shape), "fc")

\* scores = relu2_flattened.mm(fc_w) + fc_b; return scores
ConvnetFc == ConvnetStep("fc", MmShape(shape, net.fc_w), "done")

NextConvnet ==
    \/ ConvnetConv1
    \/ ConvnetRelu1
    \/ ConvnetConv2
    \/ ConvnetRelu2
    \/ ConvnetFlatten
    \/ ConvnetFc

SpecConvnet == InitConvnet /\ [][NextConvnet]_vars

-----------------------------------------------------------------------------
(* BatchNormalization.py: batchnorm_backward against batchnorm_backward_alt.  *)
(* One feature column of N values; numbers are held in finite precision:      *)
(* an integer number of units, Prec units to 1.0, every multiplication,       *)
(* division and square root rounded to the nearest unit (eps is one unit).    *)

(* Bounds *)

\* N, the number of datapoints of the batch
BatchN == 3
\* the number of units to 1.0
Prec == 100

\* n / d rounded to the nearest integer (d > 0)
Round(n, d) == (2 * n + d) \div (2 * d)

FMul(u, v) == Round(u * v, Prec)
FDiv(u, v) == Round(u * Prec, v)
FSqrt(u) ==
    CHOOSE r \in 0..(u + Prec) :
        (2 * r - 1) * (2 * r - 1) <= 4 * u * Prec /\ 4 * u * Prec < (2 * r + 1) * (2 * r + 1)

RECURSIVE FSum(_)
\* np.sum(s, axis=0)
FSum(s) == IF s = <<>> THEN 0 ELSE Head(s) + FSum(Tail(s))

\* x, dout and gamma of the comparison
BwdInputs == [1..BatchN -> {0, Prec, 3 * Prec}]
BwdDouts == [1..BatchN -> {-Prec, 0, 2 * Prec}]
BwdGammas == {Prec, 2 * Prec}

\* batchnorm_forward(x, gamma, beta, bn_param) in train mode, with the cache:
\* mu = mean(x), v = mean((x - mu)^2), sigma = sqrt(v + eps),
\* y = (x - mu) / sigma, out = gamma * y + beta
batchnorm_forward_train(xs, g, b, param) ==
    LET mu == Round(FSum(xs), BatchN)
        xc == [k \in 1..BatchN |-> xs[k] - mu]
        v == Round(FSum([k \in 1..BatchN |-> FMul(xc[k], xc[k])]), BatchN)
        std == FSqrt(v + 1)
        xhat == [k \in 1..BatchN |-> FDiv(xc[k], std)]
    IN  [out |-> [k \in 1..BatchN |-> FMul(g, xhat[k]) + b],
         cache |-> [xc |-> xc, std |-> std, xhat |-> xhat, gamma |-> g],
         param |-> [param EXCEPT
                      !.has_running = TRUE,
                      !.running_mean = Round(9 * RunningMean(param) + mu, 10),
                      !.running_var = Round(9 * RunningVar(param) + v, 10)]]

\* batchnorm_backward(dout, cache): backpropagation through the computation
\* graph, node by node
batchnorm_backward(dy, c) ==
    LET dxhat == [k \in 1..BatchN |-> FMul(dy[k], c.gamma)]
        istd == FDiv(Prec, c.std)
        dvar == Round(- FMul(FSum([k \in 1..BatchN |-> FMul(dxhat[k], c.xc[k])]),
                             FMul(FMul(istd, istd), istd)), 2)
        dmu == FSum([k \in 1..BatchN |-> - FMul(dxhat[k], istd)])
               + FMul(dvar, Round(FSum([k \in 1..BatchN |-> -2 * c.xc[k]]), BatchN))
    IN  [dx |-> [k \in 1..BatchN |->
                    FMul(dxhat[k], istd) + Round(FMul(dvar, 2 * c.xc[k]), BatchN)
                    + Round(dmu, BatchN)],
         dgamma |-> FSum([k \in 1..BatchN |-> FMul(dy[k], c.xhat[k])]),
         dbeta |-> FSum(dy)]

\* batchnorm_backward_alt, broken: the sum of dout is not subtracted
batchnorm_backward_alt_uncentred(dy, c) ==
    LET dbeta == FSum(dy)
        dgamma == FSum([k \in 1..BatchN |-> FMul(dy[k], c.xhat[k])])
        scale == FDiv(c.gamma, BatchN * c.std)
    IN  [dx |-> [k \in 1..BatchN |->
                    FMul(scale, BatchN * dy[k] - FMul(c.xhat[k], dgamma))],
         dgamma |-> dgamma,
         dbeta |-> dbeta]

\* batchnorm_backward_alt(dout, cache): the gradient simplified on paper,
\* dx = gamma / (N * sigma) * (N * dout - sum(dout) - y * sum(dout * y))
batchnorm_backward_alt(dy, c) ==
    LET dbeta == FSum(dy)
        dgamma == FSum([k \in 1..BatchN |-> FMul(dy[k], c.xhat[k])])
        scale == FDiv(c.gamma, BatchN * c.std)
    IN  [dx |-> [k \in 1..BatchN |->
                    FMul(scale, BatchN * dy[k] - dbeta - FMul(c.xhat[k], dgamma))],
         dgamma |-> dgamma,
         dbeta |-> dbeta]

\* x, gamma, beta, dout = ...; bn_param = {'mode': 'train'}
InitBnBackward ==
    /\ pc = "bnb_forward"
    /\ TrainIdle
    /\ ImgIdle
    /\ sample = <<>> /\ net = <<>> /\ shape = <<>>
    /\ bn_param = Dict("train")
    /\ ln_param = Dict("absent")
    /\ gamma \in BwdGammas /\ beta \in {0, Prec}
    /\ a_in \in BwdInputs /\ a_norm = <<0, 0>>
    /\ calls = 0 /\ seen = {} /\ p_keep = 0 /\ out = <<>> /\ out_test = <<>>
    /\ dout \in BwdDouts
    /\ cache = <<>> /\ grads1 = <<>> /\ grads2 = <<>>
    /\ CountIdle

\* out, cache = batchnorm_forward(x, gamma, beta, bn_param)
BnbForward ==
    /\ pc = "bnb_forward"
    /\ out' = batchnorm_forward_train(a_in, gamma, beta, bn_param).out
    /\ cache' = batchnorm_forward_train(a_in, gamma, beta, bn_param).cache
    /\ bn_param' = batchnorm_forward_train(a_in, gamma, beta, bn_param).param
    /\ pc' = "bnb_backward"
    /\ UNCHANGED <<ln_param, gamma, beta, a_in, a_norm, calls, seen, p_keep, out_test>>
    /\ UNCHANGED <<dout, grads1, grads2>>
    /\ UNCHANGED notBwd

\* dx1, dgamma1, dbeta1 = batchnorm_backward(dout, cache)
BnbBackward ==
    /\ pc = "bnb_backward"
    /\ grads1' = batchnorm_backward(dout, cache)
    /\ pc' = "bnb_backward_alt"
    /\ UNCHANGED <<dout, cache, grads2>>
    /\ UNCHANGED layerVars
    /\ UNCHANGED notBwd

\* dx2, dgamma2, dbeta2 = batchnorm_backward_alt(dout, cache)
BnbBackwardAlt ==
    /\ pc = "bnb_backward_alt"
    /\ grads2' = batchnorm_backward_alt(dout, cache)
    /\ pc' = "bnb_print"
    /\ UNCHANGED <<dout, cache, grads1>>
    /\ UNCHANGED layerVars
    /\ UNCHANGED notBwd

\* print('dx difference: ', rel_error(dx1, dx2)), ...
BnbPrint ==
    /\ pc = "bnb_print"
    /\ pc' = "bnb_done"
    /\ UNCHANGED bwdVars
    /\ UNCHANGED layerVars
    /\ UNCHANGED notBwd

NextBnBackward ==
    \/ BnbForward
    \/ BnbBackward
    \/ BnbBackwardAlt
    \/ BnbPrint

SpecBnBackward == InitBnBackward /\ [][NextBnBackward]_vars

-----------------------------------------------------------------------------
(* PyTorch.py: the work a call of train_part34 does, and the final training   *)
(* run train_part34(model, optimizer, epochs=10)                              *)

(* Program constants *)
batch_size == 64
\* the epochs argument of the final run
final_epochs == 10

\* ceil(n / d)
CeilDiv(n, d) == (n + d - 1) \div d

\* len(DataLoader(dataset, batch_size=64, sampler=...)): drop_last is False, the
\* last, shorter batch is yielded too
LoaderLen(indices) == CeilDiv(Cardinality(indices), batch_size)

\* The final run, on loader_train as the script builds it.  The call is followed
\* on its control flow: the model starts from fresh parameters and the learning
\* rate 1e-3 is 0 in the integer units of the learning rate.
InitFinalRun ==
    /\ pc = "loop"
    /\ params = <<0, 0>> /\ grad = <<0, 0>> /\ graph = <<>>
    /\ x = 0 /\ y = 0
    /\ e = 0 /\ t = 0 /\ i = 1
    /\ epochs = final_epochs
    /\ learning_rate = 0
    /\ training = TRUE
    /\ ImgIdle
    /\ LayerIdle
    /\ DataIdle
    /\ BwdIdle
    /\ batches = LoaderLen(loader_train_indices)
    /\ steps = 0 /\ checks = 0

InitTrain34Run == InitTrain34 \/ InitFinalRun

\* the interpreter always executes the next statement of the running call
SpecTrain34Run == InitTrain34Run /\ [][NextTrain34]_vars /\ WF_vars(NextTrain34)

-----------------------------------------------------------------------------
(* C1 *)

\* C1: in every iteration of train_part34 zero_grad runs after the forward pass
\* (the loss of the current minibatch exists, not yet back-propagated) and
\* before backward, and step runs after backward; at every optimizer step
\* .grad is the gradient of the current minibatch's loss at the current
\* parameters only, whatever .grad held before.
C1_StepUsesCurrentGradOnly ==
    /\ pc \in {"zero_grad", "backward"} =>
          /\ graph = <<Forward(params, x, y)>>
    /\ pc = "backward" => grad = <<0, 0>>
    /\ pc = "step" =>
          /\ graph = <<[Forward(params, x, y) EXCEPT !.freed = TRUE]>>
          /\ grad = LossGrad(Forward(params, x, y))

\* an optimizer step of a later iteration, with a nonzero gradient, in a run
\* that entered training with a nonzero stale gradient
C1_Witness ==
    /\ pc = "step"
    /\ t >= 1
    /\ grad # <<0, 0>>

-----------------------------------------------------------------------------
(* C2 *)

\* C2: in every iteration of train_part2 the gradient a parameter is updated
\* with is the one this iteration's backward produced (w := w - lr * w.grad),
\* w.grad is zero right after its update, and at the start of every iteration
\* all gradients are zero: gradients never accumulate across iterations.
C2_ManualSGDNeverAccumulates ==
    /\ pc \in {"loop", "forward", "backward"} => grad = <<0, 0>>
    /\ pc \in {"update", "zero"} =>
          /\ Len(graph) = 1 /\ graph[1].freed
          /\ graph[1].x = x /\ graph[1].y = y
          /\ \A k \in 1..Len(params) :
                \* already updated and zeroed
                /\ k < i => /\ grad[k] = 0
                            /\ params[k] = <<graph[1].w, graph[1].b>>[k]
                                           - learning_rate * LossGrad(graph[1])[k]
                \* not yet updated
                /\ k > i => /\ grad[k] = LossGrad(graph[1])[k]
                            /\ params[k] = <<graph[1].w, graph[1].b>>[k]
    /\ pc = "update" =>
          /\ grad[i] = LossGrad(graph[1])[i]
          /\ params[i] = <<graph[1].w, graph[1].b>>[i]
    /\ pc = "zero" =>
          /\ grad[i] = LossGrad(graph[1])[i]
          /\ params[i] = <<graph[1].w, graph[1].b>>[i]
                         - learning_rate * LossGrad(graph[1])[i]

\* the second parameter is about to be updated in a later iteration, with a
\* nonzero gradient, the first one having been updated with a nonzero gradient
C2_Witness ==
    /\ pc = "update"
    /\ t >= 1
    /\ i = 2
    /\ grad[2] # 0
    /\ params[1] # graph[1].w

-----------------------------------------------------------------------------
(* C3 *)

\* the names of style_transfer whose tensors are to stay fixed
StyleFixed == {"cnn", "content_img", "content_target", "style_targets"}

\* C3: during image optimisation the model is kept fixed.  In style_transfer
\* every Adam instance holds the tensor img and nothing else, and no step
\* changes the tensors named cnn, content_img, content_target, style_targets;
\* in create_class_visualization no step changes the model's parameters.
\* Only the tensor named img changes.
C3_OnlyImgChanges ==
    [][ /\ ref' = ref
        /\ script = "style_transfer" =>
              /\ optimizer.params = {ref.img} /\ optimizer'.params = {ref.img}
              /\ \A n \in StyleFixed : tensor'[ref[n]] = tensor[ref[n]]
        /\ script = "create_class_visualization" =>
              tensor'[ref.model] = tensor[ref.model]
      ]_vars

\* style_transfer after the learning-rate decay: the second Adam instance is in
\* use and img, started as a copy of content_img, has moved away from it
C3_Witness ==
    /\ script = "style_transfer"
    /\ t > decay_lr_at
    /\ optimizer.lr = decayed_lr
    /\ ref.img # ref.content_img
    /\ tensor[ref.img] # tensor[ref.content_img]
    /\ tensor[ref.content_target] = Feats(tensor[ref.content_img], tensor[ref.cnn])

-----------------------------------------------------------------------------
(* C4 *)

\* the calls recorded in S agree: the same input always gave the same output
Functional(S) == \A u \in S, v \in S : u[1] = v[1] => u[3] = v[3]

-----------------------------------------------------------------------------
(* C5 *)

-----------------------------------------------------------------------------
(* C6 *)

\* equality of fractions
RatEq(r, q) == r[1] * q[2] = q[1] * r[2]

-----------------------------------------------------------------------------
(* C7 *)

-----------------------------------------------------------------------------
(* C8 *)

\* the two index sets partition the indices of the CIFAR-10 training set
TrainValPartition ==
    /\ loader_train_indices \cap loader_val_indices = {}
    /\ loader_train_indices \cup loader_val_indices = Range(0, CIFAR10_TRAIN_LEN)

\* C8: the index sets loader_train and loader_val sample from are disjoint and
\* their union is exactly the indices of the CIFAR-10 training set; every
\* example either loader yields comes from the train=True dataset at an index
\* of its own set, and every example of loader_test from the train=False one.
C8_TrainValSplit ==
    /\ TrainValPartition
    /\ sample # <<>> =>
          /\ sample.loader = "loader_train" =>
                sample.train /\ sample.idx \in 0..(NUM_TRAIN - 1)
                             /\ sample.idx \notin loader_val_indices
          /\ sample.loader = "loader_val" =>
                sample.train /\ sample.idx \in NUM_TRAIN..49999
                             /\ sample.idx \notin loader_train_indices
          /\ sample.loader = "loader_test" => ~sample.train

\* loader_val has yielded the last image of the training set
C8_Witness ==
    /\ sample # <<>>
    /\ sample.loader = "loader_val"
    /\ sample.idx = CIFAR10_TRAIN_LEN - 1

-----------------------------------------------------------------------------
(* C9 *)

\* 5x5 filters in the first convolution, 3x3 filters in the second, and fc_w
\* of shape (channel_2 * H * W, C)
C9_Pre ==
    /\ net # <<>>
    /\ net.conv_w1[3] = 5 /\ net.conv_w1[4] = 5
    /\ net.conv_w2[3] = 3 /\ net.conv_w2[4] = 3
    /\ net.fc_w[1] = net.conv_w2[1] * net.x[3] * net.x[4]

\* C9: for an input of shape (N, 3, H, W) both convolutions preserve H x W and
\* three_layer_convnet returns scores of shape (N, C), without a shape error;
\* for the test case (N = 64, H = W = 32, channel_2 = 9, C = 10) that is (64, 10).
C9_ScoresShape ==
    C9_Pre =>
       /\ pc # "RuntimeError"
       /\ pc = "relu1" => shape = <<net.x[1], net.conv_w1[1], net.x[3], net.x[4]>>
       /\ pc = "relu2" => shape = <<net.x[1], net.conv_w2[1], net.x[3], net.x[4]>>
       /\ pc = "done" => shape = <<net.x[1], net.fc_w[2]>>
       /\ (pc = "done" /\ net.x = <<64, 3, 32, 32>>) => shape = <<64, 10>>

\* the test case of three_layer_convnet_test has returned
C9_Witness ==
    /\ pc = "done"
    /\ C9_Pre
    /\ net.x = <<64, 3, 32, 32>>
    /\ net.fc_w = <<9 * 32 * 32, 10>>
    /\ shape = <<64, 10>>

-----------------------------------------------------------------------------
(* C10 *)

\* the largest difference, in units, still counted as rounding error
Tolerance == 16

Near(u, v) == u - v <= Tolerance /\ v - u <= Tolerance

BothReturned == pc \in {"bnb_print", "bnb_done"}

-----------------------------------------------------------------------------
(* C11 *)

\* C11: train_part34(model, optimizer, epochs=E) on a loader of B batches
\* terminates, having made exactly E * B optimizer steps and exactly
\* E * ceil(B / print_every) accuracy checks, one at every iteration with
\* t % print_every = 0 and none at any other; the final run (E = 10, B = 766)
\* makes 7660 steps and 80 checks.
C11_StepsAndChecks ==
    /\ <>(pc = "done")
    /\ [](pc = "done" =>
            /\ steps = epochs * batches
            /\ checks = epochs * CeilDiv(batches, print_every))
    /\ []((pc = "done" /\ epochs = 10 /\ batches = 766) =>
            (steps = 7660 /\ checks = 80))
    /\ [][(pc = "print" /\ t % print_every = 0) => checks' = checks + 1]_vars
    /\ [][checks' # checks => (pc = "print" /\ t % print_every = 0)]_vars

\* the final run has returned
C11_Witness ==
    /\ pc = "done"
    /\ epochs = 10 /\ batches = 766
    /\ steps = 7660 /\ checks = 80

=============================================================================
